---------------------------- MODULE Spec2Model ----------------------------
(***************************************************************************)
(* A model of the coroutine examples of wp1.7-coroutine-tests:             *)
(*   - the handle-owning wrapper CoTask and the promise types Promise<T,U> *)
(*     (src/unnamed/part_000, src/CoroutinesCommon/coroutines.cpp), the    *)
(*     three example coroutines and the two main() programs driving them;  *)
(*   - the std::generator example sequence(n) (src/unnamed/part_001).      *)
(***************************************************************************)
EXTENDS Integers, Sequences, FiniteSets

(***************************************************************************)
(* Bounds of the model.                                                    *)
(***************************************************************************)
MaxWrappers == 2      \* CoTask objects that exist at the same time
MaxFrames == 2        \* coroutine frames created in one behaviour
MaxGarbage == 1       \* reading an uninitialised x_ / y_ gives a value in 0..MaxGarbage
MaxN == 10            \* sequence(n) is called with n in -1..MaxN
MaxNeedle == 3        \* length of the list handed to std::ranges::includes

Wrappers == 1..MaxWrappers
MainFrames == 3       \* main() calls three coroutines
Garbage == 0..MaxGarbage
NullHandle == 0       \* nullptr, part_000:27
Blank == -1           \* an empty output line: std::cout << '\n'

VARIABLES
  driver,      \* who calls the API: "client", "part_000" or "coroutines_cpp"
  clientCo,    \* the coroutine function the client calls
  mpc,         \* position in main() ("client" for the arbitrary client)
  wrappers,    \* CoTask objects: [live, handle, ptype]
  frames,      \* coroutine frames: promise (x_, y_), local x, resume point
  out,         \* lines written to std::cout
  lastOp,      \* the operation performed by the last step and what it returned
  terminated,  \* std::terminate() was called
  nullDeref,   \* get_value()/get_result() was called through a null handle
  everFalse,   \* history: a resume() on the observed wrapper has returned false
  falseSince,  \* same, since the last move-assignment into the observed wrapper
  resumeLog,   \* main(): the values returned by cpf.resume() so far
  gen          \* state of the generator program (part_001)

\* The frames of a behaviour: the client creates up to MaxFrames, main()
\* its three.  Slot NullHandle is no frame: it counts the calls of
\* destroy() made through a null handle.
Frames == DOMAIN frames \ {NullHandle}

vars == <<driver, clientCo, mpc, wrappers, frames, out, lastOp, terminated, nullDeref,
          everFalse, falseSince, resumeLog, gen>>

coVars == <<driver, clientCo, mpc, wrappers, frames, out, lastOp, terminated, nullDeref,
            everFalse, falseSince, resumeLog>>

(***************************************************************************)
(* The example coroutines.  A body is the sequence of its statements:      *)
(*   "PrintXInc"  std::cout << x++ << '\n';                                *)
(*   "PrintX"     std::cout << x << '\n';                                  *)
(*   "Await"      co_await std::suspend_always{};                          *)
(*   "YieldXInc"  co_yield x++;                                            *)
(*   "YieldX"     co_yield x;                                              *)
(*   "ReturnX"    co_return static_cast<int>(x);                           *)
(*   "Throw"      a statement that throws out of the body                  *)
(***************************************************************************)
co_await_int == <<"PrintXInc", "Await", "PrintX", "Await">>

co_yield_int == <<"YieldXInc", "YieldX">>

\* (co_return_int with co_yield x in place of co_yield x++)
co_return_int_noinc == <<"YieldX", "ReturnX">>
co_return_int == <<"YieldXInc", "ReturnX">>

\* An input body, not one of the repository's examples: it yields once and
\* then lets an exception escape, which reaches unhandled_exception().
co_throwing == <<"YieldXInc", "Throw">>

Coroutines == {"co_await_int", "co_yield_int", "co_return_int", "co_throwing"}

Body(c) ==
  CASE c = "co_await_int" -> co_await_int
    [] c = "co_yield_int" -> co_yield_int
    [] c = "co_return_int" -> co_return_int
    [] OTHER -> co_throwing

\* The promise type of each coroutine: which of x_ and y_ it declares.
\*   Promise<void, void>, Promise<unsigned, void>, Promise<unsigned, int>
PromiseType(c) ==
  CASE c = "co_await_int" -> [name |-> "Promise<void,void>", hasX |-> FALSE, hasY |-> FALSE]
    [] c = "co_yield_int" -> [name |-> "Promise<unsigned,void>", hasX |-> TRUE, hasY |-> FALSE]
    [] OTHER -> [name |-> "Promise<unsigned,int>", hasX |-> TRUE, hasY |-> TRUE]

NoPromise == [name |-> "none", hasX |-> FALSE, hasY |-> FALSE]

(***************************************************************************)
(* Frames and wrappers.                                                    *)
(***************************************************************************)
NoFrame ==
  [state |-> "unborn",     \* "unborn", "alive" or "destroyed"
   destroys |-> 0,         \* calls of handle_.destroy() on this frame
   co |-> "co_await_int",
   pc |-> 1,               \* next statement of the body
   status |-> "initial",   \* "initial", "suspended", "final" or "threw"
   x |-> 0,                \* the body's local: unsigned x{}
   x_ |-> 0, y_ |-> 0,     \* the promise record: T x_; U y_;
   xSet |-> FALSE,         \* x_ has been written (it has no initialiser)
   ySet |-> FALSE,         \* y_ has been written
   resumes |-> 0,          \* calls of handle_.resume() on this frame
   points |-> 0,           \* suspension points of the body reached
   nYield |-> 0, lastYield |-> 0,  \* operands of co_yield so far
   returned |-> FALSE, lastReturn |-> 0,  \* operand of co_return
   exc |-> FALSE]          \* an exception escaped the body

NoWrapper == [live |-> FALSE, handle |-> NullHandle, ptype |-> NoPromise]

NoOp == [op |-> "none", w |-> 0, src |-> 0, res |-> FALSE, val |-> 0]

Op(o, w, s) == [NoOp EXCEPT !.op = o, !.w = w, !.src = s]

(***************************************************************************)
(* PromiseBase and Promise<T, U>.                                          *)
(***************************************************************************)
\* (a promise that starts eagerly would return suspend_never)
initial_suspend_never == "suspend_never"
initial_suspend == "suspend_always"

final_suspend == "suspend_always"

\* A machine m is what a running body acts on:
\*   [fr: its frame, out: std::cout, term: std::terminate() was called]
\* (an unhandled_exception() that returned would let the body end normally)
unhandled_exception_swallow(m) == m
unhandled_exception(m) == [m EXCEPT !.term = TRUE]

yield_value(fr, v) == [fr EXCEPT !.x_ = v, !.xSet = TRUE]

\* (a return_value that stored into x_ would overwrite the yielded value)
return_value_into_x(fr, v) == [fr EXCEPT !.x_ = v, !.xSet = TRUE]
return_value(fr, v) == [fr EXCEPT !.y_ = v, !.ySet = TRUE]

return_void(fr) == fr

\* handle_.done(): the coroutine is suspended at its final suspension point
done(fr) == fr.status = "final"

\* handle_.destroy(): the frame, its promise and its locals are gone
Destroyed(fr) == [NoFrame EXCEPT !.state = "destroyed", !.destroys = fr.destroys + 1]

destroy(fs, h) == [fs EXCEPT ![h] = Destroyed(fs[h])]

\* The end of the body: co_await promise.final_suspend().  With
\* suspend_always the frame stays alive, suspended at the end; a promise
\* that does not suspend there has its frame destroyed by the coroutine.
FinalSuspend(m) ==
  IF final_suspend = "suspend_always"
  THEN [m EXCEPT !.fr.status = "final"]
  ELSE [m EXCEPT !.fr = Destroyed(m.fr)]

\* Runs the body from its resume point to the next suspension point.
RECURSIVE Run(_)
Run(m) ==
  LET fr == m.fr
      body == Body(fr.co)
  IN
  IF fr.pc > Len(body)
  THEN FinalSuspend([m EXCEPT !.fr = return_void(fr)])
  ELSE
    LET s == body[fr.pc]
        next == [m EXCEPT !.fr.pc = @ + 1]
    IN
    CASE s = "PrintXInc" ->
           Run([next EXCEPT !.out = Append(@, fr.x), !.fr.x = fr.x + 1])
      [] s = "PrintX" ->
           Run([next EXCEPT !.out = Append(@, fr.x)])
      [] s = "Await" ->
           [next EXCEPT !.fr.status = "suspended", !.fr.points = @ + 1]
      [] s = "YieldXInc" ->
           LET n1 == [next EXCEPT !.fr.x = fr.x + 1, !.fr.nYield = @ + 1,
                                  !.fr.lastYield = fr.x]
               n2 == [n1 EXCEPT !.fr = yield_value(n1.fr, fr.x)]
           IN [n2 EXCEPT !.fr.status = "suspended", !.fr.points = @ + 1]
      [] s = "YieldX" ->
           LET n1 == [next EXCEPT !.fr.nYield = @ + 1, !.fr.lastYield = fr.x]
               n2 == [n1 EXCEPT !.fr = yield_value(n1.fr, fr.x)]
           IN [n2 EXCEPT !.fr.status = "suspended", !.fr.points = @ + 1]
      [] s = "ReturnX" ->
           LET n1 == [next EXCEPT !.fr.returned = TRUE, !.fr.lastReturn = fr.x]
               n2 == [n1 EXCEPT !.fr = return_value(n1.fr, fr.x)]
           IN FinalSuspend(n2)
      [] OTHER ->   \* "Throw"
           LET n1 == unhandled_exception([next EXCEPT !.fr.exc = TRUE])
           IN IF n1.term THEN [n1 EXCEPT !.fr.status = "threw"]
              ELSE FinalSuspend(n1)

Machine(fr) == [fr |-> fr, out |-> out, term |-> FALSE]

(***************************************************************************)
(* CoTask<PT>: the operations on the wrapper, as functions of the wrappers *)
(* ws and the frames fs.                                                   *)
(***************************************************************************)
\* explicit CoTask(const handle_type& handle) : handle_{handle}
CoTask_ctor(ws, w, h, pt) ==
  [ws EXCEPT ![w] = [live |-> TRUE, handle |-> h, ptype |-> pt]]

\* CoTask(CoTask&& ct) noexcept : handle_{std::exchange(ct.handle_, nullptr)}
\* (copying the handle without clearing the source would leave two owners)
CoTask_move_ctor_copy(ws, dst, src) ==
  [ws EXCEPT ![dst] = [live |-> TRUE, handle |-> ws[src].handle,
                       ptype |-> ws[src].ptype]]
CoTask_move_ctor(ws, dst, src) ==
  [ws EXCEPT ![src].handle = NullHandle,
             ![dst] = [live |-> TRUE, handle |-> ws[src].handle,
                       ptype |-> ws[src].ptype]]

\* CoTask& operator=(CoTask&& ct)
\* (operator= without the test this != &ct)
CoTask_move_assign_no_self_check(ws, fs, dst, src) ==
  [ws |-> [ws EXCEPT ![src].handle = NullHandle, ![dst].handle = ws[src].handle],
   fs |-> IF ws[dst].handle # NullHandle THEN destroy(fs, ws[dst].handle) ELSE fs]
\* (operator= without the destroy() of the frame the target owned)
CoTask_move_assign_leak(ws, fs, dst, src) ==
  IF dst # src
  THEN [ws |-> [ws EXCEPT ![src].handle = NullHandle, ![dst].handle = ws[src].handle],
        fs |-> fs]
  ELSE [ws |-> ws, fs |-> fs]
CoTask_move_assign(ws, fs, dst, src) ==
  IF dst # src
  THEN [ws |-> [ws EXCEPT ![src].handle = NullHandle, ![dst].handle = ws[src].handle],
        fs |-> IF ws[dst].handle # NullHandle THEN destroy(fs, ws[dst].handle) ELSE fs]
  ELSE [ws |-> ws, fs |-> fs]

\* ~CoTask()
\* (a destructor that did not destroy the frame)
CoTask_dtor_leak(ws, fs, w) ==
  [ws |-> [ws EXCEPT ![w] = NoWrapper], fs |-> fs]
CoTask_dtor(ws, fs, w) ==
  [ws |-> [ws EXCEPT ![w] = NoWrapper],
   fs |-> IF ws[w].handle # NullHandle THEN destroy(fs, ws[w].handle) ELSE fs]

\* bool resume() const: the guard before handle_.resume()
\* (a guard that tested the handle alone, not done())
CoTask_resume_guard_null_only(ws, fs, w) ==
  ws[w].handle = NullHandle
CoTask_resume_guard(ws, fs, w) ==
  ws[w].handle = NullHandle \/ done(fs[ws[w].handle])

\* handle_.resume(): one more resumption of the frame, which runs its body
handle_resume(fr) == Run(Machine([fr EXCEPT !.resumes = @ + 1]))

\* The frame a call of coroutine c creates: the promise is default
\* constructed, which leaves x_ and y_ uninitialised.
NewFrame(c) == [NoFrame EXCEPT !.state = "alive", !.co = c]

FreshFrame == CHOOSE f \in Frames :
                 /\ frames[f].state = "unborn"
                 /\ \A g \in Frames : frames[g].state = "unborn" => f <= g

(***************************************************************************)
(* The operations as steps.  Each sets wrappers, frames, lastOp,           *)
(* terminated, nullDeref, everFalse and falseSince; the caller sets the    *)
(* rest (DoCall and DoResume also set out, which a running body writes).   *)
(***************************************************************************)
\* main() keeps its CoTask in the variable cpf: wrapper slot 1
cpf == 1

\* The history variables follow one wrapper object, the one in slot
\* Observed: the slots are interchangeable, so it stands for any of them.
Observed == cpf

Fresh(h, w) == IF w = Observed THEN FALSE ELSE h

Noted(h, w, b) == IF w = Observed THEN h \/ b ELSE h

\* Calling a coroutine function: the frame is allocated, get_return_object()
\* builds the wrapper, and the coroutine awaits initial_suspend().
DoCall(w, c) ==
  /\ ~wrappers[w].live
  /\ \E f \in Frames : frames[f].state = "unborn"
  /\ LET f == FreshFrame
         m0 == Machine(NewFrame(c))
         m == IF initial_suspend = "suspend_always" THEN m0 ELSE Run(m0)
     IN /\ frames' = [frames EXCEPT ![f] = m.fr]
        /\ wrappers' = CoTask_ctor(wrappers, w, f, PromiseType(c))
        /\ out' = m.out
        /\ terminated' = m.term
        /\ lastOp' = Op("call", w, 0)
  /\ everFalse' = Fresh(everFalse, w)
  /\ falseSince' = Fresh(falseSince, w)
  /\ UNCHANGED nullDeref

DoMoveCtor(dst, src) ==
  /\ ~wrappers[dst].live
  /\ wrappers[src].live
  /\ wrappers' = CoTask_move_ctor(wrappers, dst, src)
  /\ lastOp' = Op("move_ctor", dst, src)
  /\ everFalse' = Fresh(everFalse, dst)
  /\ falseSince' = Fresh(falseSince, dst)
  /\ UNCHANGED <<frames, terminated, nullDeref>>

DoMoveAssign(dst, src) ==
  /\ wrappers[dst].live
  /\ wrappers[src].live
  /\ wrappers[dst].ptype = wrappers[src].ptype
  /\ LET r == CoTask_move_assign(wrappers, frames, dst, src)
     IN /\ wrappers' = r.ws
        /\ frames' = r.fs
  /\ lastOp' = Op("move_assign", dst, src)
  /\ falseSince' = IF dst # src THEN Fresh(falseSince, dst) ELSE falseSince
  /\ UNCHANGED <<everFalse, terminated, nullDeref>>

DoDtor(w) ==
  /\ wrappers[w].live
  /\ LET r == CoTask_dtor(wrappers, frames, w)
     IN /\ wrappers' = r.ws
        /\ frames' = r.fs
  /\ lastOp' = Op("dtor", w, 0)
  /\ everFalse' = Fresh(everFalse, w)
  /\ falseSince' = Fresh(falseSince, w)
  /\ UNCHANGED <<terminated, nullDeref>>

DoResume(w) ==
  /\ wrappers[w].live
  /\ LET h == wrappers[w].handle IN
     IF CoTask_resume_guard(wrappers, frames, w)
     THEN /\ lastOp' = Op("resume", w, 0)
          /\ everFalse' = Noted(everFalse, w, TRUE)
          /\ falseSince' = Noted(falseSince, w, TRUE)
          /\ UNCHANGED <<frames, out, terminated>>
     ELSE LET m == handle_resume(frames[h])
              r == ~m.term /\ ~done(m.fr)     \* return !handle_.done();
          IN /\ frames' = [frames EXCEPT ![h] = m.fr]
             /\ out' = m.out
             /\ terminated' = m.term
             /\ lastOp' = [Op("resume", w, 0) EXCEPT !.res = r]
             /\ everFalse' = Noted(everFalse, w, ~m.term /\ ~r)
             /\ falseSince' = Noted(falseSince, w, ~m.term /\ ~r)
  /\ UNCHANGED <<wrappers, nullDeref>>

\* auto get_value() const { return handle_.promise().x_; }
\* Reading x_ before it was written, or through a null handle, is undefined:
\* any value may come back.
DoGetValue(w) ==
  /\ wrappers[w].live
  /\ wrappers[w].ptype.hasX
  /\ LET h == wrappers[w].handle IN
     IF h # NullHandle
     THEN /\ \E v \in (IF frames[h].xSet THEN {frames[h].x_} ELSE Garbage) :
               lastOp' = [Op("get_value", w, 0) EXCEPT !.val = v]
          /\ UNCHANGED nullDeref
     ELSE /\ \E v \in Garbage : lastOp' = [Op("get_value", w, 0) EXCEPT !.val = v]
          /\ nullDeref' = TRUE
  /\ UNCHANGED <<wrappers, frames, terminated, everFalse, falseSince>>

\* auto get_result() const { return handle_.promise().y_; }
DoGetResult(w) ==
  /\ wrappers[w].live
  /\ wrappers[w].ptype.hasY
  /\ LET h == wrappers[w].handle IN
     IF h # NullHandle
     THEN /\ \E v \in (IF frames[h].ySet THEN {frames[h].y_} ELSE Garbage) :
               lastOp' = [Op("get_result", w, 0) EXCEPT !.val = v]
          /\ UNCHANGED nullDeref
     ELSE /\ \E v \in Garbage : lastOp' = [Op("get_result", w, 0) EXCEPT !.val = v]
          /\ nullDeref' = TRUE
  /\ UNCHANGED <<wrappers, frames, terminated, everFalse, falseSince>>


(***************************************************************************)
(* The arbitrary client: any sequence of calls of one coroutine function   *)
(* (wrappers of different promise types are different types and cannot be *)
(* moved into each other), moves, destructions, resumptions and reads.     *)
(* Moves exist in part_000 only.  Nothing runs once std::terminate() has   *)
(* been called.                                                            *)
(***************************************************************************)
Client == driver = "client" /\ ~terminated

Call ==
  /\ Client
  /\ \E w \in Wrappers : DoCall(w, clientCo)
  /\ UNCHANGED <<driver, clientCo, mpc, resumeLog, gen>>

MoveConstruct ==
  /\ Client
  /\ \E dst \in Wrappers, src \in Wrappers : DoMoveCtor(dst, src)
  /\ UNCHANGED <<driver, clientCo, mpc, out, resumeLog, gen>>

MoveAssign ==
  /\ Client
  /\ \E dst \in Wrappers, src \in Wrappers : DoMoveAssign(dst, src)
  /\ UNCHANGED <<driver, clientCo, mpc, out, resumeLog, gen>>

Destructor ==
  /\ Client
  /\ \E w \in Wrappers : DoDtor(w)
  /\ UNCHANGED <<driver, clientCo, mpc, out, resumeLog, gen>>

Resume ==
  /\ Client
  /\ \E w \in Wrappers : DoResume(w)
  /\ UNCHANGED <<driver, clientCo, mpc, resumeLog, gen>>

\* The client reads only through a handle that refers to a coroutine.
GetValue ==
  /\ Client
  /\ \E w \in Wrappers : wrappers[w].handle # NullHandle /\ DoGetValue(w)
  /\ UNCHANGED <<driver, clientCo, mpc, out, resumeLog, gen>>

GetResult ==
  /\ Client
  /\ \E w \in Wrappers : wrappers[w].handle # NullHandle /\ DoGetResult(w)
  /\ UNCHANGED <<driver, clientCo, mpc, out, resumeLog, gen>>

(***************************************************************************)
(* main() of part_000 and of coroutines.cpp: three blocks, each with its   *)
(* own cpf (wrapper 1), driven by while(cpf.resume()).                     *)
(***************************************************************************)
Example(ex) ==
  CASE ex = 1 -> "co_await_int"
    [] ex = 2 -> "co_yield_int"
    [] OTHER -> "co_return_int"

At(ex, at) == [ex |-> ex, at |-> at]
ClientPc == At(0, "client")
MainDone == At(4, "done")

InMain == driver # "client" /\ ~terminated

\* auto cpf = co_xxx_int();
MainCall ==
  /\ InMain /\ mpc.at = "call"
  /\ DoCall(cpf, Example(mpc.ex))
  /\ mpc' = At(mpc.ex, "loop")
  /\ UNCHANGED <<driver, clientCo, resumeLog, gen>>

\* while(cpf.resume())
MainResume ==
  /\ InMain /\ mpc.at = "loop"
  /\ DoResume(cpf)
  /\ resumeLog' = Append(resumeLog, lastOp'.res)
  /\ mpc' = IF terminated' THEN mpc
            ELSE IF lastOp'.res
                 THEN (IF mpc.ex = 1 THEN mpc ELSE At(mpc.ex, "print"))
                 ELSE (IF mpc.ex = 3 THEN At(3, "result") ELSE At(mpc.ex, "exit"))
  /\ UNCHANGED <<driver, clientCo, gen>>

\* std::cout << cpf.get_value() << '\n';
MainGetValue ==
  /\ InMain /\ mpc.at = "print"
  /\ DoGetValue(cpf)
  /\ out' = Append(out, lastOp'.val)
  /\ mpc' = At(mpc.ex, "loop")
  /\ UNCHANGED <<driver, clientCo, resumeLog, gen>>

\* std::cout << cpf.get_result() << '\n';
MainGetResult ==
  /\ InMain /\ mpc.at = "result"
  /\ DoGetResult(cpf)
  /\ out' = Append(out, lastOp'.val)
  /\ mpc' = At(mpc.ex, "exit")
  /\ UNCHANGED <<driver, clientCo, resumeLog, gen>>

\* the closing brace of the block: ~CoTask()
MainScopeExit ==
  /\ InMain /\ mpc.at = "exit"
  /\ DoDtor(cpf)
  /\ mpc' = IF mpc.ex = 3 /\ driver = "coroutines_cpp" THEN MainDone
            ELSE At(mpc.ex, "nl")
  /\ UNCHANGED <<driver, clientCo, out, resumeLog, gen>>

\* std::cout << '\n';   (after the third block in part_000 only)
MainNewline ==
  /\ InMain /\ mpc.at = "nl"
  /\ out' = Append(out, Blank)
  /\ mpc' = IF mpc.ex = 3 THEN MainDone ELSE At(mpc.ex + 1, "call")
  /\ lastOp' = Op("newline", 0, 0)
  /\ UNCHANGED <<driver, clientCo, wrappers, frames, terminated, nullDeref, everFalse,
                 falseSince, resumeLog, gen>>

NoGen == [phase |-> "off"]

Init ==
  /\ driver \in {"client", "part_000", "coroutines_cpp"}
  /\ clientCo \in (IF driver = "client" THEN Coroutines ELSE {"co_await_int"})
  /\ mpc = IF driver = "client" THEN ClientPc ELSE At(1, "call")
  /\ wrappers = [w \in Wrappers |-> NoWrapper]
  /\ frames = [f \in 0..(IF driver = "client" THEN MaxFrames ELSE MainFrames) |-> NoFrame]
  /\ out = <<>>
  /\ lastOp = NoOp
  /\ terminated = FALSE
  /\ nullDeref = FALSE
  /\ everFalse = FALSE
  /\ falseSince = FALSE
  /\ resumeLog = <<>>
  /\ gen = NoGen

Next ==
  \/ Call
  \/ MoveConstruct
  \/ MoveAssign
  \/ Destructor
  \/ Resume
  \/ GetValue
  \/ GetResult
  \/ MainCall
  \/ MainResume
  \/ MainGetValue
  \/ MainGetResult
  \/ MainScopeExit
  \/ MainNewline

Spec == Init /\ [][Next]_vars


(***************************************************************************)
(* part_001: std::generator<T> sequence(T n) and the main() that prints    *)
(* it, collects it into a vector and tests std::ranges::includes on it.    *)
(* gen = [n, phase, co, outp, vec, i, needle, j, res]                      *)
(***************************************************************************)
\* The coroutine of sequence(n) before its first resumption: a generator
\* starts suspended.   T x{};
sequence == [x |-> 0, value |-> 0, status |-> "initial", yields |-> 0]

\* One resumption of sequence(n):   while(x < n) { co_yield x++; }
\* (the loop with x <= n in place of x < n)
sequence_resume_inclusive(co, n) ==
  IF co.x <= n
  THEN [x |-> co.x + 1, value |-> co.x, status |-> "suspended",
        yields |-> co.yields + 1]
  ELSE [co EXCEPT !.status = "final"]
sequence_resume(co, n) ==
  IF co.x < n
  THEN [x |-> co.x + 1, value |-> co.x, status |-> "suspended",
        yields |-> co.yields + 1]
  ELSE [co EXCEPT !.status = "final"]

\* begin() of a generator resumes it to its first co_yield; ++it resumes it
\* again; it == end() when the coroutine is done; *it is the value yielded.
generator_begin(n) == sequence_resume(sequence, n)

generator_done(co) == co.status = "final"

NeedleVals == 0..MaxN

IsSorted(q) == \A a \in 1..Len(q) - 1 : q[a] <= q[a + 1]

StrictlyIncreasing(q) == \A a \in 1..Len(q) - 1 : q[a] < q[a + 1]

\* The lists handed to std::ranges::includes, which requires them sorted
Needles == {q \in UNION {[1..k -> NeedleVals] : k \in 0..MaxNeedle} : IsSorted(q)}

Iota(n) == [k \in 1..(IF n > 0 THEN n ELSE 0) |-> k - 1]

GenPhase(p) == driver = "generator" /\ gen.phase = p

\* sequence(n) is called and iteration over it begins
StartRange ==
  /\ \/ GenPhase("print1_start") /\ gen' = [gen EXCEPT !.phase = "print1",
                                                      !.co = generator_begin(gen.n)]
     \/ GenPhase("collect_start") /\ gen' = [gen EXCEPT !.phase = "collect",
                                                       !.co = generator_begin(gen.n)]
     \/ /\ GenPhase("includes_start")
        /\ \E q \in Needles :
             gen' = [gen EXCEPT !.phase = "includes", !.needle = q, !.j = 1,
                                !.co = generator_begin(gen.n)]
  /\ UNCHANGED coVars

\* print_range(sequence(n)): one turn of   for(auto&& x : R) std::cout << x << '\n';
\* and the   std::cout << '\n';   after the loop
PrintRangeGen ==
  /\ GenPhase("print1")
  /\ gen' = IF generator_done(gen.co)
            THEN [gen EXCEPT !.outp = Append(@, Blank), !.phase = "collect_start"]
            ELSE [gen EXCEPT !.outp = Append(@, gen.co.value),
                             !.co = sequence_resume(gen.co, gen.n)]
  /\ UNCHANGED coVars

\* std::vector x = sequence(n) | std::ranges::to<std::vector>();
ToVector ==
  /\ GenPhase("collect")
  /\ gen' = IF generator_done(gen.co)
            THEN [gen EXCEPT !.phase = "print2", !.i = 1]
            ELSE [gen EXCEPT !.vec = Append(@, gen.co.value),
                             !.co = sequence_resume(gen.co, gen.n)]
  /\ UNCHANGED coVars

\* print_range(x)
PrintRangeVec ==
  /\ GenPhase("print2")
  /\ gen' = IF gen.i > Len(gen.vec)
            THEN [gen EXCEPT !.outp = Append(@, Blank), !.phase = "includes_start"]
            ELSE [gen EXCEPT !.outp = Append(@, gen.vec[gen.i]), !.i = @ + 1]
  /\ UNCHANGED coVars

\* std::ranges::includes(sequence(n), needle), one turn of its loop:
\*   while(first1 != last1 && first2 != last2) {
\*      if(*first2 < *first1) return false;
\*      if(!(*first1 < *first2)) ++first2;
\*      ++first1;
\*   }
\*   return first2 == last2;
Includes ==
  /\ GenPhase("includes")
  /\ gen' = IF generator_done(gen.co) \/ gen.j > Len(gen.needle)
            THEN [gen EXCEPT !.res = IF gen.j > Len(gen.needle) THEN "true" ELSE "false",
                             !.phase = "done"]
            ELSE IF gen.needle[gen.j] < gen.co.value
            THEN [gen EXCEPT !.res = "false", !.phase = "done"]
            ELSE [gen EXCEPT !.j = IF gen.co.value < gen.needle[gen.j] THEN @ ELSE @ + 1,
                             !.co = sequence_resume(gen.co, gen.n)]
  /\ UNCHANGED coVars

GenInit ==
  /\ driver = "generator"
  /\ clientCo = "co_await_int"
  /\ mpc = At(0, "generator")
  /\ wrappers = [w \in Wrappers |-> NoWrapper]
  /\ frames = [f \in {NullHandle} |-> NoFrame]
  /\ out = <<>>
  /\ lastOp = NoOp
  /\ terminated = FALSE
  /\ nullDeref = FALSE
  /\ everFalse = FALSE
  /\ falseSince = FALSE
  /\ resumeLog = <<>>
  /\ \E n \in -1..MaxN :
       gen = [n |-> n, phase |-> "print1_start", co |-> sequence, outp |-> <<>>,
              vec |-> <<>>, i |-> 0, needle |-> <<>>, j |-> 0, res |-> "none"]

GenNext ==
  \/ StartRange
  \/ PrintRangeGen
  \/ ToVector
  \/ PrintRangeVec
  \/ Includes

SpecGen == GenInit /\ [][GenNext]_vars


(***************************************************************************)
(* Vocabulary of the properties.                                           *)
(***************************************************************************)
Live(w) == wrappers[w].live

Owns(w) == Live(w) /\ wrappers[w].handle # NullHandle

Alive(f) == frames[f].state = "alive"

\* what resume() tests before resuming: no coroutine, or a finished one
Stuck(w) == wrappers[w].handle = NullHandle \/ done(frames[wrappers[w].handle])

\* the step just taken: which operation it was
StepIs(o) == lastOp'.op = o

DtorOf(w) == StepIs("dtor") /\ lastOp'.w = w

AssignedInto(w) == StepIs("move_assign") /\ lastOp'.w = w /\ lastOp'.src # w

MovedFrom(w) ==
  /\ StepIs("move_ctor") \/ StepIs("move_assign")
  /\ lastOp'.src = w
  /\ lastOp'.w # w

ResumeOf(w) == StepIs("resume") /\ lastOp'.w = w

IsPrefix(p, q) == Len(p) <= Len(q) /\ \A k \in 1..Len(p) : p[k] = q[k]

(***************************************************************************)
(* C1.  At most one owner of a coroutine handle at a time: no two live     *)
(* CoTask objects hold the same non-null handle, whatever sequence of      *)
(* coroutine calls, move-constructions, move-assignments (self-assignment  *)
(* included) and destructions led to the state.                            *)
(***************************************************************************)
C1_SingleOwner ==
  \A w1 \in Wrappers, w2 \in Wrappers :
     (w1 # w2 /\ Owns(w1) /\ Live(w2)) => wrappers[w1].handle # wrappers[w2].handle

\* two live wrappers own frames at the same time, after a move
C1_Witness ==
  /\ lastOp.op \in {"move_ctor", "move_assign"}
  /\ \E w1 \in Wrappers, w2 \in Wrappers : w1 # w2 /\ Owns(w1) /\ Owns(w2)

(***************************************************************************)
(* C2.  As claimed: the frame a wrapper's handle refers to is destroyed    *)
(* when that wrapper is destroyed and when that wrapper is moved-from (is  *)
(* the source of a move-construction or of a move-assignment).             *)
(***************************************************************************)
C2_DestroyedWhenMovedFrom ==
  [][\A w \in Wrappers :
       (Owns(w) /\ (DtorOf(w) \/ MovedFrom(w)))
          => frames'[wrappers[w].handle].state = "destroyed"]_vars

(***************************************************************************)
(* C2, amended.  The frame a wrapper owns is destroyed exactly when that   *)
(* wrapper is destroyed or is the target of a move-assignment from another *)
(* wrapper.  When the wrapper is moved-from, its frame is not destroyed:   *)
(* it stays alive, now owned by the destination, and the source is left    *)
(* with a null handle.                                                     *)
(***************************************************************************)
C2_DestroyedWithOwner ==
  [][\A w \in Wrappers :
       Owns(w) =>
         LET h == wrappers[w].handle IN
         /\ (Alive(h) /\ frames'[h].state = "destroyed") <=> (DtorOf(w) \/ AssignedInto(w))
         /\ MovedFrom(w) => /\ frames'[h] = frames[h]
                            /\ wrappers'[lastOp'.w].handle = h
                            /\ wrappers'[w].handle = NullHandle]_vars

\* a wrapper was moved-from, and the frame it owned is alive in the destination
C2_Witness ==
  /\ lastOp.op \in {"move_ctor", "move_assign"}
  /\ lastOp.w # lastOp.src
  /\ Owns(lastOp.w)
  /\ Alive(wrappers[lastOp.w].handle)
  /\ wrappers[lastOp.src].handle = NullHandle

(***************************************************************************)
(* C3.  Every frame is destroyed exactly once: destroy() is never called   *)
(* twice on a frame and never through a null handle, and once every CoTask *)
(* has been destroyed no frame that was created is left alive.             *)
(***************************************************************************)
C3_DestroyedOnce ==
  /\ \A f \in Frames : frames[f].destroys <= 1
  /\ frames[NullHandle].destroys = 0
  /\ (\A w \in Wrappers : ~Live(w)) => \A f \in Frames : ~Alive(f)

\* the client created all its frames, moved and destroyed: none is left
C3_Witness ==
  /\ driver = "client"
  /\ lastOp.op = "dtor"
  /\ \A w \in Wrappers : ~Live(w)
  /\ \A f \in Frames : frames[f].state = "destroyed" /\ frames[f].destroys = 1


(***************************************************************************)
(* C4.  The suspension protocol of a coroutine built on PromiseBase:       *)
(* it is suspended at start (calling it runs no statement of the body and  *)
(* writes nothing); each resume() runs the body up to the next suspension  *)
(* point; when the body returns the coroutine is suspended at the end,     *)
(* its frame still alive and done() true, and it stays so, the body never  *)
(* running again, until the wrapper destroys the frame.                    *)
(***************************************************************************)
C4_FrameProtocol(f) ==
  LET fr == frames[f] IN
  Alive(f) =>
    /\ fr.status = "initial" <=> fr.resumes = 0
    /\ fr.status = "initial" =>
         /\ fr.pc = 1 /\ fr.x = 0 /\ fr.points = 0
         /\ fr.nYield = 0 /\ ~fr.returned /\ ~fr.xSet /\ ~fr.ySet
    /\ fr.status = "suspended" => fr.resumes = fr.points /\ fr.pc <= Len(Body(fr.co)) + 1
    /\ fr.status = "final" => fr.resumes = fr.points + 1 /\ done(fr)

C4_StepProtocol(f) ==
  LET fr == frames[f]
      to == frames'[f]
  IN
  Alive(f) =>
    /\ StepIs("call") => out' = out
    /\ to.state = "destroyed" => (StepIs("dtor") \/ StepIs("move_assign"))
    /\ to.state # "destroyed" =>
         /\ to.resumes \in {fr.resumes, fr.resumes + 1}
         /\ to.resumes = fr.resumes => to = fr
         /\ to.resumes = fr.resumes + 1 =>
              /\ \E w \in Wrappers : ResumeOf(w) /\ wrappers[w].handle = f
              /\ fr.status \in {"initial", "suspended"}
              /\ to.pc >= fr.pc
              /\ \/ to.status = "suspended" /\ to.points = fr.points + 1 /\ to.pc > fr.pc
                 \/ to.status \in {"final", "threw"} /\ to.points = fr.points
    /\ fr.status = "final" =>
         \A w \in Wrappers : (ResumeOf(w) /\ wrappers[w].handle = f) =>
            (frames' = frames /\ out' = out /\ ~lastOp'.res)

C4_SuspensionProtocol ==
  /\ [](\A f \in Frames : C4_FrameProtocol(f))
  /\ [][\A f \in Frames : C4_StepProtocol(f)]_vars

\* a coroutine sits at its final suspension point after a further resume()
\* found it done
C4_Witness ==
  /\ lastOp.op = "resume" /\ ~lastOp.res /\ ~terminated
  /\ Owns(lastOp.w)
  /\ LET fr == frames[wrappers[lastOp.w].handle] IN
       fr.state = "alive" /\ fr.status = "final" /\ fr.resumes = fr.points + 1
       /\ fr.points = 2

(***************************************************************************)
(* C5.  Driven by while(cpf.resume()), the examples print the hand-        *)
(* computed lines: co_await_int prints 0 and 1 from its body, with two     *)
(* resumes returning true and the third false; co_yield_int has            *)
(* get_value() printed as 0 and 1; co_return_int has get_value() printed   *)
(* as 0 once and, after the loop, get_result() printed as 1.               *)
(***************************************************************************)
C5_ExpectedOut ==
  IF driver = "part_000"
  THEN <<0, 1, Blank, 0, 1, Blank, 0, 1, Blank>>
  ELSE <<0, 1, Blank, 0, 1, Blank, 0, 1>>

C5_ExpectedResumes == <<TRUE, TRUE, FALSE, TRUE, TRUE, FALSE, TRUE, FALSE>>

C5_PrintedSequence ==
  driver \in {"part_000", "coroutines_cpp"} =>
    /\ IsPrefix(out, C5_ExpectedOut)
    /\ IsPrefix(resumeLog, C5_ExpectedResumes)
    /\ lastOp.op = "get_value" => lastOp.val = (IF resumeLog \in {<<TRUE, TRUE, FALSE, TRUE>>,
                                                   <<TRUE, TRUE, FALSE, TRUE, TRUE, FALSE, TRUE>>}
                                               THEN 0 ELSE 1)
    /\ lastOp.op = "get_result" => lastOp.val = 1
    /\ mpc.ex = 2 /\ mpc.at = "call" => out = <<0, 1, Blank>> /\ resumeLog = <<TRUE, TRUE, FALSE>>
    /\ mpc.ex = 3 /\ mpc.at = "call" =>
         out = <<0, 1, Blank, 0, 1, Blank>>
         /\ resumeLog = <<TRUE, TRUE, FALSE, TRUE, TRUE, FALSE>>
    /\ mpc = MainDone => out = C5_ExpectedOut /\ resumeLog = C5_ExpectedResumes

\* main() of part_000 ran to its end
C5_Witness == driver = "part_000" /\ mpc = MainDone /\ Len(out) = 9

(***************************************************************************)
(* C6.  The promise record is changed by the body alone: x_ changes only   *)
(* in yield_value, to the value yielded (overwriting the previous one),    *)
(* and y_ only in return_value; a resume() that yields and returns         *)
(* nothing, get_value(), get_result() and moving the wrapper leave the     *)
(* record unchanged.  So get_value() gives the most recently yielded value *)
(* and get_result(), after completion, the value given to co_return.       *)
(***************************************************************************)
C6_StepFrame(f) ==
  LET fr == frames[f]
      to == frames'[f]
  IN
  (Alive(f) /\ to.state = "alive") =>
    /\ (to.x_ # fr.x_ \/ to.xSet # fr.xSet) =>
          /\ StepIs("resume")
          /\ to.nYield = fr.nYield + 1 /\ to.xSet /\ to.x_ = to.lastYield
    /\ (to.y_ # fr.y_ \/ to.ySet # fr.ySet) =>
          /\ StepIs("resume")
          /\ ~fr.returned /\ to.returned /\ to.ySet /\ to.y_ = to.lastReturn
    /\ (StepIs("get_value") \/ StepIs("get_result") \/ StepIs("move_ctor")
          \/ (StepIs("move_assign") /\ lastOp'.w = lastOp'.src)) => frames' = frames
    /\ StepIs("move_assign") => (to = fr \/ to.state = "destroyed")

C6_Record(f) ==
  LET fr == frames[f] IN
  Alive(f) =>
    /\ fr.nYield > 0 => fr.xSet /\ fr.x_ = fr.lastYield
    /\ fr.nYield = 0 => ~fr.xSet
    /\ fr.returned <=> fr.ySet
    /\ fr.returned => fr.y_ = fr.lastReturn /\ done(fr)

C6_Reads ==
  (lastOp.op \in {"get_value", "get_result"} /\ Owns(lastOp.w)) =>
     LET fr == frames[wrappers[lastOp.w].handle] IN
     /\ (lastOp.op = "get_value" /\ fr.nYield > 0) => lastOp.val = fr.lastYield
     /\ (lastOp.op = "get_result" /\ done(fr) /\ fr.returned) => lastOp.val = fr.lastReturn

C6_PromiseRecord ==
  /\ [](C6_Reads /\ \A f \in Frames : C6_Record(f))
  /\ [][\A f \in Frames : C6_StepFrame(f)]_vars

\* get_value() after the second co_yield overwrote the first value
C6_Witness ==
  /\ lastOp.op = "get_value" /\ Owns(lastOp.w)
  /\ frames[wrappers[lastOp.w].handle].nYield = 2
  /\ lastOp.val = 1

(***************************************************************************)
(* C7.  An exception that escapes a coroutine body is fatal: the process   *)
(* is terminated inside unhandled_exception(), so the coroutine does not   *)
(* reach its final suspension point, the resume() that ran the body does   *)
(* not return, and no operation at all is performed afterwards.            *)
(***************************************************************************)
Escaped == \E f \in Frames : frames[f].exc

C7_ExceptionIsFatal ==
  /\ [](Escaped => /\ terminated
                   /\ lastOp.op = "resume" /\ ~lastOp.res
                   /\ \A f \in Frames : frames[f].exc =>
                        frames[f].status = "threw" /\ ~done(frames[f]))
  /\ [][~Escaped]_vars

\* the body of co_throwing threw after its first co_yield
C7_Witness ==
  /\ terminated /\ Escaped
  /\ \E f \in Frames : frames[f].exc /\ frames[f].nYield = 1 /\ frames[f].resumes = 2


(***************************************************************************)
(* C8.  Common part: sequence(n) yields 0, 1, ..., n-1 in strictly         *)
(* increasing order, one value per resumption, and then completes          *)
(* (nothing when n <= 0); printing it, collecting it into a vector and     *)
(* printing the vector give that same sequence.                            *)
(***************************************************************************)
C8_Yields ==
  driver = "generator" =>
    LET co == gen.co IN
    /\ co.status = "suspended" =>
         co.value = co.yields - 1 /\ co.value < gen.n /\ co.x = co.value + 1
    /\ co.status = "final" => co.yields = Len(Iota(gen.n)) /\ co.x = co.yields
    /\ gen.phase = "print1" => gen.outp = SubSeq(Iota(gen.n), 1, co.yields - 1)
                               \/ (generator_done(co) /\ gen.outp = Iota(gen.n))
    /\ gen.phase = "collect" => gen.vec = SubSeq(Iota(gen.n), 1, co.yields - 1)
                                \/ (generator_done(co) /\ gen.vec = Iota(gen.n))
    /\ gen.phase \in {"print2", "includes_start", "includes", "done"} =>
         gen.vec = Iota(gen.n)
    /\ gen.phase \in {"includes_start", "includes", "done"} =>
         gen.outp = Iota(gen.n) \o <<Blank>> \o gen.vec \o <<Blank>>

InRange(q, n) == \A k \in 1..Len(q) : 0 <= q[k] /\ q[k] < n

(***************************************************************************)
(* C8, as claimed: ... and every sorted list of integers drawn from        *)
(* [0, n) is included in sequence(n) by std::ranges::includes.             *)
(***************************************************************************)
C8_EverySortedListIncluded ==
  /\ C8_Yields
  /\ (driver = "generator" /\ gen.phase = "done"
        /\ IsSorted(gen.needle) /\ InRange(gen.needle, gen.n)) => gen.res = "true"

(***************************************************************************)
(* C8, amended: ... and every strictly increasing list of integers drawn   *)
(* from [0, n), such as {1, 3, 5} for n = 10, is included in sequence(n)   *)
(* by std::ranges::includes; a sorted list that repeats an element is not. *)
(***************************************************************************)
C8_IncreasingListIncluded ==
  /\ C8_Yields
  /\ (driver = "generator" /\ gen.phase = "done" /\ InRange(gen.needle, gen.n)) =>
        (gen.res = "true" <=> StrictlyIncreasing(gen.needle))

\* the assertion of main(): includes(sequence(10), {1, 3, 5})
C8_Witness ==
  /\ driver = "generator" /\ gen.phase = "done"
  /\ gen.n = 10 /\ gen.needle = <<1, 3, 5>> /\ gen.res = "true"
  /\ gen.vec = <<0, 1, 2, 3, 4, 5, 6, 7, 8, 9>>

(***************************************************************************)
(* C9.  Common part: resume() never resumes a coroutine that is absent or  *)
(* finished: with a null handle or done() true it returns false and        *)
(* changes nothing; otherwise it resumes the coroutine exactly once and    *)
(* returns true iff the coroutine is then suspended at a suspension point  *)
(* that is not the final one.                                              *)
(***************************************************************************)
ResumeChangesNothing ==
  /\ wrappers' = wrappers /\ frames' = frames /\ out' = out
  /\ terminated' = terminated

C9_ResumeStep(w) ==
  ResumeOf(w) =>
    LET h == wrappers[w].handle IN
    /\ Stuck(w) => ~lastOp'.res /\ ResumeChangesNothing
    /\ ~Stuck(w) =>
         /\ frames'[h].resumes = frames[h].resumes + 1
         /\ \A f \in Frames : f # h => frames'[f] = frames[f]
         /\ wrappers' = wrappers
         /\ ~terminated' => (lastOp'.res <=> frames'[h].status = "suspended")
         /\ ~terminated' => (~lastOp'.res <=> done(frames'[h]))

(***************************************************************************)
(* C9, as claimed: ... hence once resume() has returned false on a         *)
(* wrapper, every later resume() on that wrapper returns false and changes *)
(* nothing.                                                                *)
(***************************************************************************)
C9_FalseForEver ==
  [][/\ \A w \in Wrappers : C9_ResumeStep(w)
     /\ (ResumeOf(Observed) /\ everFalse) => (~lastOp'.res /\ ResumeChangesNothing)]_vars

(***************************************************************************)
(* C9, amended: ... hence once resume() has returned false on a wrapper,   *)
(* every later resume() on that wrapper returns false and changes nothing, *)
(* until another wrapper is move-assigned into it: move-assignment gives   *)
(* it another coroutine, which resume() may then run.                      *)
(***************************************************************************)
C9_FalseUntilAssigned ==
  [][/\ \A w \in Wrappers : C9_ResumeStep(w)
     /\ (ResumeOf(Observed) /\ falseSince) => (~lastOp'.res /\ ResumeChangesNothing)]_vars

\* a second resume() on a wrapper whose coroutine is finished
C9_Witness ==
  /\ falseSince /\ lastOp.op = "resume" /\ lastOp.w = Observed /\ ~lastOp.res
  /\ Owns(Observed) /\ done(frames[wrappers[Observed].handle])
  /\ frames[wrappers[Observed].handle].resumes >= 2

(***************************************************************************)
(* C10.  a = std::move(b) with a and b distinct destroys the frame a       *)
(* owned (if any), makes a own b's frame and leaves b with a null handle,  *)
(* without resuming or destroying b's frame; self-move-assignment leaves   *)
(* the wrapper's handle and its frame unchanged and alive; the example     *)
(* programs never reach get_value() or get_result() on a null handle.      *)
(***************************************************************************)
C10_AssignStep ==
  StepIs("move_assign") =>
    LET a == lastOp'.w
        b == lastOp'.src
        ha == wrappers[a].handle
        hb == wrappers[b].handle
    IN
    IF a # b
    THEN /\ wrappers'[a].handle = hb
         /\ wrappers'[b].handle = NullHandle
         /\ wrappers'[a].live /\ wrappers'[b].live
         /\ ha # NullHandle => frames'[ha].state = "destroyed" /\ frames'[ha].destroys = 1
         /\ \A f \in Frames : f # ha => frames'[f] = frames[f]
         /\ hb # NullHandle => Alive(hb) /\ frames'[hb] = frames[hb]
         /\ frames'[NullHandle] = frames[NullHandle]
    ELSE /\ wrappers' = wrappers
         /\ frames' = frames
         /\ ha # NullHandle => frames'[ha].state = "alive"

C10_MainReads ==
  driver \in {"part_000", "coroutines_cpp"} =>
    /\ ~nullDeref
    /\ mpc.at \in {"print", "result"} => Owns(cpf)
    /\ lastOp.op \in {"get_value", "get_result"} => Owns(cpf)

C10_MoveAssignment == [](C10_MainReads) /\ [][C10_AssignStep]_vars

\* a took b's frame, and the frame a owned before is destroyed
C10_Witness ==
  /\ lastOp.op = "move_assign" /\ lastOp.w # lastOp.src
  /\ Owns(lastOp.w) /\ Alive(wrappers[lastOp.w].handle)
  /\ wrappers[lastOp.src].handle = NullHandle
  /\ \A v \in Wrappers : Live(v)
  /\ \E f \in Frames : frames[f].state = "destroyed"


=============================================================================
